---- MODULE Spec2Model ----
(***************************************************************************)
(* A model of earendel's EarendelServer (src/src/lib.rs): the day-keyed,   *)
(* single-slot APOD cache (get_apod_image / fetch_apod_image) and the MAST *)
(* query / response-filter pipeline (get_fits_for_apod).                   *)
(*                                                                         *)
(* Conventions.  Option<T> is a sequence of length at most one: <<>> is    *)
(* None and <<x>> is Some(x).  A String that the code inspects (a dataURL) *)
(* is a sequence of one-character strings.  An f64 of degrees is an        *)
(* integer number of tenths of a degree.  Utc::now().date_naive() is the   *)
(* variable clock, a day number that only moves forward.                   *)
(***************************************************************************)
EXTENDS Integers, Sequences, FiniteSets, TLC

\* ------------------------------------------------------------------ bounds
MaxDay == 2
MaxCalls == 3
MaxEntries == 3
MaxPage == 2

Pages == 0..MaxPage

None == <<>>
Some(x) == <<x>>
IsSome(o) == Len(o) = 1
Unwrap(o) == o[1]

\* ------------------------------------------------- upstream APOD documents
\* struct Apod: the fields of the upstream JSON that the code reads.  The
\* service publishes one of these documents; the third has no url.
Apod ==
    {[title |-> "NGC 4632", copyright |-> None, url |-> Some("a.jpg")],
     [title |-> "NGC 4632", copyright |-> Some("ESA"), url |-> Some("b.jpg")],
     [title |-> "NGC 4632", copyright |-> None, url |-> None]}

\* The bytes the image host serves at a URL.
ImageBytes(url) == IF url = "a.jpg" THEN "bytes-a" ELSE "bytes-b"

\* The record built at the end of fetch_apod_image.
MakeEarendelApod(apod, img) ==
    [title |-> apod.title, img |-> img, copyright |-> apod.copyright]

\* --------------------------------------------------------- archive request
\* The Icrs coordinates (tenths of a degree) the name catalogue may hold for
\* the object lookup_by_name is asked about.
IcrsCoords == {[ra |-> 1906, dec |-> -1], [ra |-> 1907, dec |-> 2]}

RadiusTenths == 2
PageSize == 25
TimeoutSecs == 30

\* impl From<Icrs> for MastRequestParams
MastRequestParams_from(value) ==
    [ra |-> value.ra, dec |-> value.dec, radius |-> RadiusTenths]

\* Mutant: the page sent is the one after the page asked for.
MastRequest_newNextPage(params, page) ==
    [service |-> "Mast.Caom.Cone",
     params |-> params,
     format |-> "json",
     pagesize |-> PageSize,
     page |-> page + 1,
     removenullcolumns |-> TRUE,
     timeout |-> TimeoutSecs]

\* MastRequest::new
MastRequest_new(params, page) ==
    [service |-> "Mast.Caom.Cone",
     params |-> params,
     format |-> "json",
     pagesize |-> PageSize,
     page |-> page,
     removenullcolumns |-> TRUE,
     timeout |-> TimeoutSecs]

\* serde_json renders an unsigned integer in decimal.
JsonUint(n) == <<ToString(n)>>

\* serde_json renders an f64 with its fraction; x is in tenths.
JsonF64(x) ==
    LET a == IF x < 0 THEN -x ELSE x
        digits == <<ToString(a \div 10), ".", ToString(a % 10)>>
    IN IF x < 0 THEN <<"-">> \o digits ELSE digits

JsonStr(s) == <<"\"", s, "\"">>
JsonBool(b) == IF b THEN <<"true">> ELSE <<"false">>
JsonKey(k) == JsonStr(k) \o <<":">>

\* serde_json::to_string of MastRequestParams: fields in declaration order.
ParamsToJson(p) ==
    <<"{">> \o JsonKey("ra") \o JsonF64(p.ra) \o <<",">>
            \o JsonKey("dec") \o JsonF64(p.dec) \o <<",">>
            \o JsonKey("radius") \o JsonF64(p.radius) \o <<"}">>

\* serde_json::to_string of MastRequest: compact, fields in declaration order.
ToJson(r) ==
    <<"{">> \o JsonKey("service") \o JsonStr(r.service) \o <<",">>
            \o JsonKey("params") \o ParamsToJson(r.params) \o <<",">>
            \o JsonKey("format") \o JsonStr(r.format) \o <<",">>
            \o JsonKey("pagesize") \o JsonUint(r.pagesize) \o <<",">>
            \o JsonKey("page") \o JsonUint(r.page) \o <<",">>
            \o JsonKey("removenullcolumns") \o JsonBool(r.removenullcolumns) \o <<",">>
            \o JsonKey("timeout") \o JsonUint(r.timeout) \o <<"}">>

\* urlencoding::encode on one token: everything but ASCII alphanumerics and
\* "-", "_", ".", "~" becomes %XX; the other tokens of ToJson are made of
\* unreserved characters only.
PercentEncodeToken(t) ==
    CASE t = "{" -> "%7B"
      [] t = "}" -> "%7D"
      [] t = "\"" -> "%22"
      [] t = ":" -> "%3A"
      [] t = "," -> "%2C"
      [] t = " " -> "%20"
      [] OTHER -> t

PercentEncode(s) == [i \in 1..Len(s) |-> PercentEncodeToken(s[i])]

\* MastRequest::to_urlencoded
to_urlencoded(r) == PercentEncode(ToJson(r))

\* The POST body of get_fits_for_apod.
EncodedRequest(coords, page) ==
    <<"request=">> \o to_urlencoded(MastRequest_new(MastRequestParams_from(coords), page))

\* -------------------------------------------------------- archive response
FitsNeedle == <<"f", "i", "t", "s">>

UrlFitsA == <<"a", "/", "b", ".", "f", "i", "t", "s">>
UrlPng == <<"c", "/", "d", ".", "p", "n", "g">>
UrlFitsGz == <<"f", "i", "t", "s", ".", "g", "z">>
UrlUpper == <<"e", ".", "F", "I", "T", "S">>
UrlFit == <<"f", "i", "t">>

DataUrls == {UrlFitsA, UrlPng, UrlFitsGz, UrlUpper, UrlFit}

\* struct MastResponseEntry: only dataURL is read.
MastResponseEntry == [data_url : {None} \cup {Some(u) : u \in DataUrls}]

RowsTotals == {0, 47}

\* struct MastResponsePaging: only page and rowsTotal matter here.
MastResponsePaging == [page : Pages, rows_total : RowsTotals]

SeqsUpTo(S, n) == UNION {[1..k -> S] : k \in 0..n}

\* struct MastResponse
MastResponse == [data : SeqsUpTo(MastResponseEntry, MaxEntries), paging : MastResponsePaging]

\* The responses the whole-server specification draws from.
SmallMastResponse ==
    [data : SeqsUpTo([data_url : {None, Some(UrlFitsA), Some(UrlPng)}], 1),
     paging : [page : {1}, rows_total : {47}]]

\* Mutant: a file-extension test, the pattern at the end of the string.
EndsWith(s, pat) ==
    Len(s) >= Len(pat) /\ SubSeq(s, Len(s) - Len(pat) + 1, Len(s)) = pat

\* str::contains
RECURSIVE Contains(_, _)
Contains(s, pat) ==
    IF Len(s) < Len(pat) THEN FALSE
    ELSE IF SubSeq(s, 1, Len(pat)) = pat THEN TRUE
    ELSE Contains(Tail(s), pat)

\* The closure given to filter_map (lines 256-264).
FitsFilterEntry(entry) ==
    IF IsSome(entry.data_url) /\ Contains(Unwrap(entry.data_url), FitsNeedle)
    THEN Some(Unwrap(entry.data_url))
    ELSE None

\* Mutant: the kept URLs are collected in reverse.
RECURSIVE FilterMapReversed(_)
FilterMapReversed(data) ==
    IF data = <<>> THEN <<>>
    ELSE FilterMapReversed(Tail(data)) \o FitsFilterEntry(Head(data))

\* iter().filter_map(f).collect(): in order, keeping each Some.
RECURSIVE FilterMap(_)
FilterMap(data) ==
    IF data = <<>> THEN <<>>
    ELSE FitsFilterEntry(Head(data)) \o FilterMap(Tail(data))

\* Mutant: the page is taken from the response's paging summary.
MakeEarendelFitsEchoed(mastResp, reqPage) ==
    [files |-> FilterMap(mastResp.data),
     page |-> mastResp.paging.page,
     total_hits |-> mastResp.paging.rows_total]

\* struct EarendelFits, as built at lines 267-271.
MakeEarendelFits(mastResp, reqPage) ==
    [files |-> FilterMap(mastResp.data),
     page |-> reqPage,
     total_hits |-> mastResp.paging.rows_total]

\* ------------------------------------------------------------------- state
VARIABLES
    clock,          \* the UTC day Utc::now() reports
    api_key,        \* env var EARENDEL_APOD_API_KEY, an Option
    mast_key,       \* the archive service's API key in the process configuration,
                    \* an Option; no line of the code reads it
    catalog,        \* the coordinate the name catalogue holds for "NGC 4632"
    cached_state,   \* EarendelServer.cached_state: Option<(NaiveDate, EarendelApod)>
    pc,             \* the line the running call is at, or "idle"
    op,             \* the public operation running: "apod" or "fits"
    page,           \* get_fits_for_apod's argument
    today,          \* get_apod_image's local today
    apod,           \* fetch_apod_image's local apod (the parsed JSON), an Option
    new_state,      \* get_apod_image's local new_state, an Option
    coords,         \* get_fits_for_apod's local coords, an Option
    mast,           \* get_fits_for_apod's local mast, an Option
    ret,            \* what the last finished public call returned
    fail_stage,     \* history: the step at which that call failed, "" if it did not
    net,            \* the HTTP requests the running (or last) call has issued
    calls,          \* history: public calls started
    cnt_day,        \* history: the today of the latest get_apod_image call
    fetches,        \* history: fetch_apod_image invocations by calls whose today is cnt_day
    ok_fetches,     \* history: those of them that returned Ok
    apod_errs,      \* history: get_apod_image calls with today = cnt_day that returned Err
    ok_call,        \* history: some get_apod_image call with today = cnt_day returned Ok
    slot_at_call,   \* history: cached_state when the running call read it
    fetch_span,     \* history: this call's fetch: the call's today, the day
                    \* fetch_apod_image was invoked (from) and the day it returned (to)
    fetched,        \* history: the record fetch_apod_image returned in this call
    slot_span,      \* history: fetch_span of the record now in cached_state
    prev_post       \* history: the archive POST of the latest earlier call that issued one

vars == <<clock, api_key, mast_key, catalog, cached_state, pc, op, page, today, apod, new_state, coords,
          mast, ret, fail_stage, net, calls, cnt_day, fetches, ok_fetches, apod_errs, ok_call,
          slot_at_call, fetch_span, fetched, slot_span, prev_post>>

counts == <<cnt_day, fetches, ok_fetches, apod_errs, ok_call>>

hist == <<calls, counts, slot_at_call, fetch_span, fetched, slot_span, prev_post>>

\* ------------------------------------------------------------ return values
NoRet == [kind |-> "None", op |-> "", apod |-> None, fits |-> None, err |-> ""]
OkApod(a) == [kind |-> "Ok", op |-> "apod", apod |-> Some(a), fits |-> None, err |-> ""]
OkFits(f) == [kind |-> "Ok", op |-> "fits", apod |-> None, fits |-> Some(f), err |-> ""]
Err(o, e) == [kind |-> "Err", op |-> o, apod |-> None, fits |-> None, err |-> e]

\* One HTTP request: the service it goes to and its body.
Request(svc, body) == [svc |-> svc, body |-> body]

\* The archive POSTs among a call's requests.
MastPosts(n) == SelectSeq(n, LAMBDA r : r.svc = "mast")

\* EarendelServer::new(): Default gives cached_state = None.
Init ==
    /\ clock = 0
    /\ api_key \in {None, Some("KEY")}
    /\ mast_key \in {None, Some("MASTKEY")}
    /\ catalog \in IcrsCoords
    /\ cached_state = None
    /\ pc = "idle"
    /\ op = ""
    /\ page = 0
    /\ today = 0
    /\ apod = None
    /\ new_state = None
    /\ coords = None
    /\ mast = None
    /\ ret = NoRet
    /\ fail_stage = ""
    /\ net = <<>>
    /\ calls = 0
    /\ cnt_day = 0
    /\ fetches = 0
    /\ ok_fetches = 0
    /\ apod_errs = 0
    /\ ok_call = FALSE
    /\ slot_at_call = None
    /\ fetch_span = None
    /\ fetched = None
    /\ slot_span = None
    /\ prev_post = None

\* The clock passes midnight, at any point of any call.
Tick ==
    /\ clock < MaxDay
    /\ clock' = clock + 1
    /\ UNCHANGED <<api_key, mast_key, catalog, cached_state, pc, op, page, today, apod, new_state, coords,
                   mast, ret, fail_stage, net, hist>>

\* A server whose operations took &self: a caller may enter while another
\* call is running.
StartCallShared(o, p) ==
    /\ calls < MaxCalls
    /\ calls' = calls + 1
    /\ pc' = "apod_today"
    /\ op' = o
    /\ page' = p
    /\ today' = 0
    /\ apod' = None
    /\ new_state' = None
    /\ coords' = None
    /\ mast' = None
    /\ net' = <<>>
    /\ slot_at_call' = None
    /\ fetch_span' = None
    /\ fetched' = None
    /\ prev_post' = IF MastPosts(net) # <<>> THEN Some(MastPosts(net)[1]) ELSE prev_post
    /\ UNCHANGED <<clock, api_key, mast_key, catalog, cached_state, ret, fail_stage, counts,
                   slot_span>>

\* A caller starts a public operation; the locals of the previous call are gone.
\* Both operations take &mut self (lines 182 and 223): the borrow lasts until
\* the call's future has completed, so no call starts while another runs.
StartCall(o, p) ==
    /\ pc = "idle"
    /\ calls < MaxCalls
    /\ calls' = calls + 1
    /\ pc' = "apod_today"
    /\ op' = o
    /\ page' = p
    /\ today' = 0
    /\ apod' = None
    /\ new_state' = None
    /\ coords' = None
    /\ mast' = None
    /\ net' = <<>>
    /\ slot_at_call' = None
    /\ fetch_span' = None
    /\ fetched' = None
    /\ prev_post' = IF MastPosts(net) # <<>> THEN Some(MastPosts(net)[1]) ELSE prev_post
    /\ UNCHANGED <<clock, api_key, mast_key, catalog, cached_state, ret, fail_stage, counts,
                   slot_span>>

\* A call of get_apod_image().
CallApod == StartCall("apod", 0)

\* A call of get_fits_for_apod(page), page in P; line 224 enters get_apod_image.
CallFits(P) == \E p \in P : StartCall("fits", p)

\* The call returns Err(e) from the step stage: the `?` of lines 229-251.
ReturnErr(stage, e) ==
    /\ pc' = "idle"
    /\ ret' = Err(op, e)
    /\ fail_stage' = stage

\* Line 183: let today = Utc::now().date_naive().
ApodToday ==
    /\ pc = "apod_today"
    /\ today' = clock
    /\ pc' = "apod_match"
    /\ IF clock = cnt_day
       THEN UNCHANGED counts
       ELSE /\ cnt_day' = clock
            /\ fetches' = 0
            /\ ok_fetches' = 0
            /\ apod_errs' = 0
            /\ ok_call' = FALSE
    /\ UNCHANGED <<clock, api_key, mast_key, catalog, cached_state, op, page, apod, new_state, coords, mast,
                   ret, fail_stage, net, calls, slot_at_call, fetch_span, fetched, slot_span,
                   prev_post>>

\* Mutant: the cache is never consulted.
IsHitNever(cached, tdy) == FALSE

\* Mutant: any entry counts as a hit, whatever its date.
IsHitAnyDate(cached, tdy) == IsSome(cached)

\* Mutant: an entry of the day before still counts as a hit.
IsHitWithinADay(cached, tdy) == IsSome(cached) /\ Unwrap(cached).date >= tdy - 1

\* The guard of the first match arm (line 185).
IsHit(cached, tdy) == IsSome(cached) /\ Unwrap(cached).date = tdy

\* Mutant: a miss evicts the entry before the fetch is made.
ApodMatchEvicts ==
    /\ pc = "apod_match"
    /\ slot_at_call' = cached_state
    /\ IF IsSome(cached_state) /\ Unwrap(cached_state).date = today
       THEN /\ new_state' = Some(Unwrap(cached_state).apod)
            /\ pc' = "apod_store"
            /\ UNCHANGED <<cached_state, fetches, fetch_span>>
       ELSE /\ pc' = "fetch_key"
            /\ cached_state' = None
            /\ fetches' = fetches + 1
            /\ fetch_span' = Some([start |-> today, from |-> clock, to |-> clock])
            /\ UNCHANGED new_state
    /\ UNCHANGED <<clock, api_key, mast_key, catalog, op, page, today, apod, coords, mast, ret,
                   fail_stage, net, calls, cnt_day, ok_fetches, apod_errs, ok_call, fetched, slot_span,
                   prev_post>>

\* Lines 184-186: the match on cached_state; a miss invokes fetch_apod_image.
ApodMatch ==
    /\ pc = "apod_match"
    /\ slot_at_call' = cached_state
    /\ IF IsHit(cached_state, today)
       THEN /\ new_state' = Some(Unwrap(cached_state).apod)
            /\ pc' = "apod_store"
            /\ UNCHANGED <<fetches, fetch_span>>
       ELSE /\ pc' = "fetch_key"
            /\ fetches' = fetches + 1
            /\ fetch_span' = Some([start |-> today, from |-> clock, to |-> clock])
            /\ UNCHANGED new_state
    /\ UNCHANGED <<clock, api_key, mast_key, catalog, cached_state, op, page, today, apod, coords, mast, ret,
                   fail_stage, net, calls, cnt_day, ok_fetches, apod_errs, ok_call, fetched, slot_span,
                   prev_post>>

\* Mutant: a failed fetch falls back to whatever the slot holds.
OnFetchErrFallback(cached, o, e) ==
    IF IsSome(cached) THEN OkApod(Unwrap(cached).apod) ELSE Err(o, e)

\* What get_apod_image returns when fetch_apod_image returned Err(e): the `?`
\* of line 186 returns the error, whatever the slot holds.
OnFetchErr(cached, o, e) == Err(o, e)

\* A get_fits_for_apod that drops the result of line 224 without `?`: the
\* failure of the fetch is not passed on and the call goes on to line 229.
FetchFailsSwallowed(stage, e) ==
    /\ IF op = "fits"
       THEN pc' = "fits_lookup" /\ UNCHANGED <<ret, fail_stage>>
       ELSE /\ pc' = "idle"
            /\ ret' = OnFetchErr(cached_state, op, e)
            /\ fail_stage' = stage
    /\ apod_errs' = apod_errs + 1

\* fetch_apod_image fails with e at the step stage and get_apod_image (and
\* line 224) pass it on.
FetchFails(stage, e) ==
    /\ pc' = "idle"
    /\ ret' = OnFetchErr(cached_state, op, e)
    /\ fail_stage' = stage
    /\ apod_errs' = apod_errs + 1

\* Line 195: env::var("EARENDEL_APOD_API_KEY")?.
FetchKey ==
    /\ pc = "fetch_key"
    /\ IF IsSome(api_key)
       THEN pc' = "fetch_meta" /\ UNCHANGED <<ret, fail_stage, apod_errs>>
       ELSE FetchFails("key", "VarError")
    /\ UNCHANGED <<clock, api_key, mast_key, catalog, cached_state, op, page, today, apod, new_state, coords,
                   mast, net, calls, cnt_day, fetches, ok_fetches, ok_call, slot_at_call,
                   fetch_span, fetched, slot_span, prev_post>>

\* Lines 198-200: GET the APOD document, read its text, parse it.
FetchMeta ==
    /\ pc = "fetch_meta"
    /\ net' = Append(net, Request("apod", <<>>))
    /\ \/ /\ FetchFails("apod_get", "reqwest::Error for api.nasa.gov")
          /\ UNCHANGED apod
       \/ /\ FetchFails("apod_parse", "serde_json::Error")
          /\ UNCHANGED apod
       \/ /\ \E a \in Apod : apod' = Some(a)
          /\ pc' = "fetch_img"
          /\ UNCHANGED <<ret, fail_stage, apod_errs>>
    /\ UNCHANGED <<clock, api_key, mast_key, catalog, cached_state, op, page, today, new_state, coords, mast,
                   calls, cnt_day, fetches, ok_fetches, ok_call, slot_at_call, fetch_span,
                   fetched, slot_span, prev_post>>

\* Mutant: a missing url is replaced by the empty string and asked for.
ImageRequestOrDefault(a) ==
    Some(Request("image", <<IF IsSome(a.url) THEN Unwrap(a.url) ELSE "">>))

\* Line 202: apod.url.ok_or("APOD did not contain image URL")?: the request
\* for the image, if there is a URL to ask.
ImageRequest(a) ==
    IF IsSome(a.url) THEN Some(Request("image", <<Unwrap(a.url)>>)) ELSE None

\* Lines 202-209: GET the image bytes and build the EarendelApod.
FetchImg ==
    /\ pc = "fetch_img"
    /\ LET req == ImageRequest(Unwrap(apod))
       IN IF req = None
          THEN /\ FetchFails("image_url", "APOD did not contain image URL")
               /\ UNCHANGED <<net, new_state, fetched, fetch_span, ok_fetches>>
          ELSE /\ net' = Append(net, Unwrap(req))
               /\ \/ /\ FetchFails("image_get", "reqwest::Error for the image URL")
                     /\ UNCHANGED <<new_state, fetched, fetch_span, ok_fetches>>
                  \/ /\ LET rec == MakeEarendelApod(Unwrap(apod), ImageBytes(Unwrap(req).body[1]))
                        IN /\ new_state' = Some(rec)
                           /\ fetched' = Some(rec)
                     /\ fetch_span' = Some([Unwrap(fetch_span) EXCEPT !.to = clock])
                     /\ ok_fetches' = ok_fetches + 1
                     /\ pc' = "apod_store"
                     /\ UNCHANGED <<ret, fail_stage, apod_errs>>
    /\ UNCHANGED <<clock, api_key, mast_key, catalog, cached_state, op, page, today, apod, coords, mast,
                   calls, cnt_day, fetches, ok_call, slot_at_call, slot_span, prev_post>>

\* Mutant: the slot is left as it was.
SlotNotStored(cached, tdy, rec) == cached

\* Mutant: replacing an entry keeps the date it had.
SlotKeepsDate(cached, tdy, rec) ==
    Some([date |-> IF IsSome(cached) THEN Unwrap(cached).date ELSE tdy, apod |-> rec])

\* Line 188: the slot after self.cached_state = Some((today, new_state)).
SlotAfterStore(cached, tdy, rec) == Some([date |-> tdy, apod |-> rec])

\* Mutant: a slot of get_apod_image's own, which the call made at line 224
\* does not write.
ApodStoreOwnCallsOnly ==
    /\ pc = "apod_store"
    /\ cached_state' = IF op = "apod"
                       THEN Some([date |-> today, apod |-> Unwrap(new_state)])
                       ELSE cached_state
    /\ slot_span' = IF IsSome(fetch_span) THEN fetch_span ELSE slot_span
    /\ ok_call' = TRUE
    /\ IF op = "apod"
       THEN pc' = "idle" /\ ret' = OkApod(Unwrap(new_state)) /\ fail_stage' = ""
       ELSE pc' = "fits_lookup" /\ UNCHANGED <<ret, fail_stage>>
    /\ UNCHANGED <<clock, api_key, mast_key, catalog, op, page, today, apod, new_state, coords, mast, net,
                   calls, cnt_day, fetches, ok_fetches, apod_errs, slot_at_call, fetch_span,
                   fetched, prev_post>>

\* Lines 188-190: store (today, new_state) and return Ok(new_state); inside
\* get_fits_for_apod the call of line 224 returns and line 229 is next.
ApodStore ==
    /\ pc = "apod_store"
    /\ cached_state' = SlotAfterStore(cached_state, today, Unwrap(new_state))
    /\ slot_span' = IF IsSome(fetch_span) THEN fetch_span ELSE slot_span
    /\ ok_call' = TRUE
    /\ IF op = "apod"
       THEN pc' = "idle" /\ ret' = OkApod(Unwrap(new_state)) /\ fail_stage' = ""
       ELSE pc' = "fits_lookup" /\ UNCHANGED <<ret, fail_stage>>
    /\ UNCHANGED <<clock, api_key, mast_key, catalog, op, page, today, apod, new_state, coords, mast, net,
                   calls, cnt_day, fetches, ok_fetches, apod_errs, slot_at_call, fetch_span,
                   fetched, prev_post>>

\* Line 229: lookup_by_name("NGC 4632").await?.
FitsLookup ==
    /\ pc = "fits_lookup"
    /\ net' = Append(net, Request("lookup", <<"NGC 4632">>))
    /\ \/ /\ ReturnErr("lookup", "lookup_by_name error")
          /\ UNCHANGED coords
       \/ /\ coords' = Some(catalog)
          /\ pc' = "fits_post"
          /\ UNCHANGED <<ret, fail_stage>>
    /\ UNCHANGED <<clock, api_key, mast_key, catalog, cached_state, op, page, today, apod, new_state, mast,
                   hist>>

\* A request builder that stamps the body with the day it was built on.
FitsPostStamped(R) ==
    /\ pc = "fits_post"
    /\ net' = Append(net, [svc |-> "mast",
                           body |-> EncodedRequest(Unwrap(coords), page)
                                       \o <<"&t=", ToString(clock)>>,
                           req |-> MastRequest_new(MastRequestParams_from(Unwrap(coords)), page),
                           asked |-> page])
    /\ \/ /\ ReturnErr("post", "reqwest::Error for mast.stsci.edu")
          /\ UNCHANGED mast
       \/ /\ ReturnErr("parse", "serde_json::Error")
          /\ UNCHANGED mast
       \/ /\ \E m \in R : mast' = Some(m)
          /\ pc' = "fits_filter"
          /\ UNCHANGED <<ret, fail_stage>>
    /\ UNCHANGED <<clock, api_key, mast_key, catalog, cached_state, op, page, today, apod, new_state, coords,
                   hist>>

\* Lines 231-251: build and encode the request, POST it, read and parse the
\* answer, one of the responses in R.
FitsPost(R) ==
    /\ pc = "fits_post"
    /\ net' = Append(net, [svc |-> "mast",
                           body |-> EncodedRequest(Unwrap(coords), page),
                           req |-> MastRequest_new(MastRequestParams_from(Unwrap(coords)), page),
                           asked |-> page])
    /\ \/ /\ ReturnErr("post", "reqwest::Error for mast.stsci.edu")
          /\ UNCHANGED mast
       \/ /\ ReturnErr("parse", "serde_json::Error")
          /\ UNCHANGED mast
       \/ /\ \E m \in R : mast' = Some(m)
          /\ pc' = "fits_filter"
          /\ UNCHANGED <<ret, fail_stage>>
    /\ UNCHANGED <<clock, api_key, mast_key, catalog, cached_state, op, page, today, apod, new_state, coords,
                   hist>>

\* Lines 253-271: filter the entries and return the EarendelFits.
FitsFilter ==
    /\ pc = "fits_filter"
    /\ ret' = OkFits(MakeEarendelFits(Unwrap(mast), page))
    /\ fail_stage' = ""
    /\ pc' = "idle"
    /\ UNCHANGED <<clock, api_key, mast_key, catalog, cached_state, op, page, today, apod, new_state, coords,
                   mast, net, hist>>

\* The page numbers the whole-server specification calls with.
SmallPages == {1, 2}

Next ==
    \/ Tick
    \/ CallApod
    \/ CallFits(SmallPages)
    \/ ApodToday
    \/ ApodMatch
    \/ FetchKey
    \/ FetchMeta
    \/ FetchImg
    \/ ApodStore
    \/ FitsLookup
    \/ FitsPost(SmallMastResponse)
    \/ FitsFilter

Spec == Init /\ [][Next]_vars

\* The filter and the result of get_fits_for_apod on every response: a call
\* of get_fits_for_apod(page) that has just parsed the archive's answer.
InitParse ==
    /\ clock = 0
    /\ api_key = Some("KEY")
    /\ mast_key = None
    /\ catalog \in IcrsCoords
    /\ page \in Pages
    /\ mast \in {Some(m) : m \in MastResponse}
    /\ \E a \in {d \in Apod : IsSome(d.url)}, c \in {catalog} :
          LET rec == MakeEarendelApod(a, ImageBytes(Unwrap(a.url)))
              span == Some([start |-> 0, from |-> 0, to |-> 0])
          IN /\ apod = Some(a)
             /\ new_state = Some(rec)
             /\ fetched = Some(rec)
             /\ cached_state = SlotAfterStore(None, 0, rec)
             /\ coords = Some(c)
             /\ fetch_span = span
             /\ slot_span = span
             /\ net = <<Request("apod", <<>>), Unwrap(ImageRequest(a)),
                        Request("lookup", <<"NGC 4632">>),
                        [svc |-> "mast", body |-> EncodedRequest(c, page),
                         req |-> MastRequest_new(MastRequestParams_from(c), page),
                         asked |-> page]>>
    /\ pc = "fits_filter"
    /\ op = "fits"
    /\ today = 0
    /\ ret = NoRet
    /\ fail_stage = ""
    /\ calls = 1
    /\ cnt_day = 0
    /\ fetches = 1
    /\ ok_fetches = 1
    /\ apod_errs = 0
    /\ ok_call = TRUE
    /\ slot_at_call = None
    /\ prev_post = None

NextParse == FitsFilter

SpecParse == InitParse /\ [][NextParse]_vars

\* ------------------------------------------------------------- properties
\* The lines of fetch_apod_image.
FetchPcs == {"fetch_key", "fetch_meta", "fetch_img"}

\* The lines of get_apod_image and of the fetch it makes.
ApodPcs == {"apod_today", "apod_match", "apod_store"} \cup FetchPcs

\* A finished call of get_apod_image(), the public operation.
ApodCallDone == pc = "idle" /\ calls > 0 /\ op = "apod"

\* The slot the call read was a miss for the call's today: written without
\* the operators of the model.
ReadMiss ==
    \/ slot_at_call = <<>>
    \/ slot_at_call[1].date # today

ImageRequests(n) == SelectSeq(n, LAMBDA r : r.svc = "image")

\* C1: once a get_apod_image call whose today is d has returned Ok, no later
\* call whose today is d invokes fetch_apod_image: from then on the count of
\* that day's invocations does not change.
C1_NoFetchAfterSuccess ==
    [][(ok_call /\ cnt_day' = cnt_day) => fetches' = fetches]_vars

\* C1, witness: a later call of the same day returned Ok without a fetch.
C1_Witness ==
    /\ ApodCallDone
    /\ calls >= 2
    /\ ok_call
    /\ ret.kind = "Ok"
    /\ fetch_span = None
    /\ fetches = 1

\* C2: a call that read an empty slot, or an entry of another date, invoked
\* fetch_apod_image and returned the record that fetch returned, or failed;
\* it never returned the entry it read.
C2_StaleNeverReturned ==
    (calls > 0 /\ pc \notin ApodPcs /\ ReadMiss) =>
        /\ fetch_span # None
        /\ IF new_state # None
           THEN /\ fetched # None
                /\ new_state = fetched
                /\ op = "apod" => (pc = "idle" /\ ret = OkApod(fetched[1]))
           ELSE /\ pc = "idle"
                /\ ret.kind = "Err"
                /\ ret.apod = None

\* C2, witness: the slot held yesterday's record, and the call returned a
\* different, freshly fetched one.
C2_Witness ==
    /\ ApodCallDone
    /\ slot_at_call # None
    /\ slot_at_call[1].date < today
    /\ ret.kind = "Ok"
    /\ ret.apod = fetched
    /\ ret.apod[1] # slot_at_call[1].apod

\* C3, as claimed: the entry's date is a day on which its record was being
\* fetched (between the invocation of fetch_apod_image and its return).
C3_DateIsFetchDay ==
    cached_state # None =>
        /\ slot_span # None
        /\ slot_span[1].from <= cached_state[1].date
        /\ cached_state[1].date <= slot_span[1].to

\* C3, amended: the entry's date is the date the call that fetched the record
\* read at its start; the fetch was invoked, and returned, on that day or on
\* a later one, never on an earlier one.
C3_DateIsCallStart ==
    cached_state # None =>
        /\ slot_span # None
        /\ cached_state[1].date = slot_span[1].start
        /\ slot_span[1].start <= slot_span[1].from
        /\ slot_span[1].from <= slot_span[1].to

\* C3, witness: an entry whose fetch returned after midnight, and that a
\* later call has replaced another entry with.
C3_Witness ==
    /\ cached_state # None
    /\ slot_span # None
    /\ slot_span[1].to > cached_state[1].date
    /\ slot_at_call # None
    /\ slot_at_call[1].date < cached_state[1].date

\* C4, as claimed: when a call has finished, exactly one invocation of
\* fetch_apod_image has been made by the calls of its day.  Stated with the
\* API key set, where every invocation reaches the network (line 198).
C4_ExactlyOneFetchPerDay ==
    (pc = "idle" /\ calls > 0 /\ api_key # None) => fetches = 1

\* C4, amended: among the calls of one day (the date a call reads at its
\* start) at most one invocation of fetch_apod_image returns Ok, exactly one
\* once a call of that day has returned Ok; every failed get_apod_image call
\* has made one more invocation.
C4_OneSuccessfulFetchPerDay ==
    /\ ok_fetches <= 1
    /\ ok_call => ok_fetches = 1
    /\ fetches = apod_errs + ok_fetches + (IF pc \in FetchPcs THEN 1 ELSE 0)

\* C4, witness: a day with a failed call, then a successful one, then a hit.
C4_Witness ==
    /\ ApodCallDone
    /\ calls >= 3
    /\ apod_errs >= 1
    /\ ok_call
    /\ fetches = 2
    /\ fetch_span = None
    /\ ret.kind = "Ok"

\* C5: a call whose fetch_apod_image failed returns Err and no record, also
\* when the slot holds an earlier record.
C5_NoFallbackOnFailure ==
    (pc = "idle" /\ calls > 0 /\ fetch_span # None /\ fetched = None) =>
        /\ ret.kind = "Err"
        /\ ret.apod = None

\* C5, witness: the fetch failed while the slot held an earlier day's record.
C5_Witness ==
    /\ ApodCallDone
    /\ fetch_span # None
    /\ fetched = None
    /\ slot_at_call # None
    /\ slot_at_call[1].date < today
    /\ cached_state = slot_at_call
    /\ ret.kind = "Err"

\* C10: when the parsed APOD document has no url, the call issues no image
\* GET and, once past line 202, has returned the error of that line.
C10_NoUrlNoImageGet ==
    (apod # None /\ apod[1].url = None) =>
        /\ ImageRequests(net) = <<>>
        /\ pc \in {"fetch_img", "idle"}
        /\ pc = "idle" =>
              /\ ret = Err(op, "APOD did not contain image URL")
              /\ new_state = None

\* C10, witness: a get_apod_image call that got a document without url.
C10_Witness ==
    /\ ApodCallDone
    /\ apod # None
    /\ apod[1].url = None
    /\ Len(net) = 1
    /\ net[1].svc = "apod"
    /\ ret.kind = "Err"

\* A finished call of get_fits_for_apod that returned Ok.
FitsCallOk == pc = "idle" /\ calls > 0 /\ op = "fits" /\ ret.kind = "Ok"

\* The entry has a dataURL in which "f", "i", "t", "s" stand next to each
\* other, in lower case: written without the operators of the model.
HasFitsUrl(e) ==
    /\ e.data_url # <<>>
    /\ LET u == e.data_url[1]
       IN \E i \in 1..(Len(u) - 3) :
             u[i] = "f" /\ u[i + 1] = "i" /\ u[i + 2] = "t" /\ u[i + 3] = "s"

\* The positions of the response's entries that have such a dataURL.
FitsIdx(data) == {i \in 1..Len(data) : HasFitsUrl(data[i])}

\* How many times u stands in the sequence f.
Occurrences(f, u) == Cardinality({k \in 1..Len(f) : f[k] = u})

\* C6: the call on a parsed response returns Ok, and each URL stands in files
\* once for every entry that carries it and has "fits" in it; an entry
\* without dataURL, or with another URL, adds nothing.
C6_FilesAreTheFitsUrls ==
    /\ (pc = "idle" /\ mast # None) => ret.kind = "Ok"
    /\ FitsCallOk =>
          LET data == mast[1].data
              files == ret.fits[1].files
          IN /\ \A u \in DataUrls :
                   Occurrences(files, u) =
                       Cardinality({i \in FitsIdx(data) : data[i].data_url[1] = u})
             /\ \A k \in 1..Len(files) : files[k] \in DataUrls

\* C6, witness: a response with an entry without dataURL, one whose URL has
\* FITS in upper case only, and one with "fits" inside its URL.
C6_Witness ==
    /\ FitsCallOk
    /\ mast[1].data = <<[data_url |-> <<>>], [data_url |-> <<UrlUpper>>],
                        [data_url |-> <<UrlFitsGz>>]>>
    /\ ret.fits[1].files = <<UrlFitsGz>>

\* C7: files is the sequence of the dataURLs of the entries that pass the
\* filter, in the order of the response: the k-th file is the URL of the
\* k-th such entry.
C7_FilesKeepResponseOrder ==
    FitsCallOk =>
        LET data == mast[1].data
            files == ret.fits[1].files
        IN /\ Len(files) = Cardinality(FitsIdx(data))
           /\ \A k \in 1..Len(files) :
                 \E i \in FitsIdx(data) :
                    /\ Cardinality({j \in FitsIdx(data) : j < i}) = k - 1
                    /\ files[k] = data[i].data_url[1]

\* C7, witness: two different FITS URLs around a dropped entry.
C7_Witness ==
    /\ FitsCallOk
    /\ mast[1].data = <<[data_url |-> <<UrlFitsGz>>], [data_url |-> <<UrlPng>>],
                        [data_url |-> <<UrlFitsA>>]>>
    /\ ret.fits[1].files = <<UrlFitsGz, UrlFitsA>>

\* The response of the example: a/b.fits, c/d.png and an empty entry.
ExampleData ==
    <<[data_url |-> <<UrlFitsA>>], [data_url |-> <<UrlPng>>], [data_url |-> <<>>]>>

\* C8: the returned page is the page the caller asked for and total_hits is
\* the response's rowsTotal; the example response asked with page 2 gives
\* files [a/b.fits], page 2, total_hits 47.
C8_PageAndTotalHits ==
    FitsCallOk =>
        /\ ret.fits[1].page = page
        /\ ret.fits[1].total_hits = mast[1].paging.rows_total
        /\ (mast[1].data = ExampleData /\ mast[1].paging.rows_total = 47 /\ page = 2) =>
              ret.fits[1] = [files |-> <<UrlFitsA>>, page |-> 2, total_hits |-> 47]

\* C8, witness: the example, with a response that reports another page than
\* the one asked for and a rowsTotal that is not the number of files.
C8_Witness ==
    /\ FitsCallOk
    /\ mast[1].data = ExampleData
    /\ mast[1].paging = [page |-> 0, rows_total |-> 47]
    /\ page = 2
    /\ ret.fits[1] = [files |-> <<UrlFitsA>>, page |-> 2, total_hits |-> 47]

\* The fields of an archive request other than page and the coordinate.
FixedFields(r) ==
    <<r.service, r.params.radius, r.format, r.pagesize, r.removenullcolumns, r.timeout>>

\* The positions at which two encoded bodies differ.
DiffPositions(a, b) == {i \in 1..Len(a) : a[i] # b[i]}

\* C9: every archive query has the same service, radius 0.2, format,
\* pagesize 25, removenullcolumns and timeout 30, the ra and dec
\* lookup_by_name gave, and the caller's page number as its page.  The query
\* of a call and that of an earlier call with another page number differ in
\* the page field only: their bodies differ in one token, the page number.
C9_QueriesDifferOnlyInPage ==
    MastPosts(net) # <<>> =>
        LET b == MastPosts(net)[1]
        IN /\ Len(MastPosts(net)) = 1
           /\ FixedFields(b.req) = <<"Mast.Caom.Cone", 2, "json", 25, TRUE, 30>>
           /\ b.asked = page
           /\ b.req.page = page
           /\ b.req.params.ra = coords[1].ra
           /\ b.req.params.dec = coords[1].dec
           /\ prev_post # None =>
                 LET a == prev_post[1]
                 IN /\ FixedFields(a.req) = FixedFields(b.req)
                    /\ a.req.params = b.req.params
                    /\ a.req.page = a.asked
                    /\ a.asked # b.asked =>
                          /\ Len(a.body) = Len(b.body)
                          /\ \E i \in 1..Len(a.body) :
                                /\ DiffPositions(a.body, b.body) = {i}
                                /\ a.body[i] = ToString(a.asked)
                                /\ b.body[i] = ToString(b.asked)

\* C9, witness: two calls with different page numbers have both posted
\* their query.
C9_Witness ==
    /\ prev_post # None
    /\ MastPosts(net) # <<>>
    /\ prev_post[1].asked # MastPosts(net)[1].asked
    /\ prev_post[1].body # MastPosts(net)[1].body

\* --------------------------------------------------------------- claim C11
\* The four stages of get_fits_for_apod that the interface names, and the
\* step of the code that belongs to each.
StageOf(step) ==
    CASE step \in {"key", "apod_get", "apod_parse", "image_url", "image_get"} -> "apod"
      [] step = "lookup" -> "resolution"
      [] step = "post" -> "post"
      [] step = "parse" -> "parse"
      [] OTHER -> ""

FitsCallFailed(r) == r.kind = "Err" /\ r.op = "fits"

\* C11: a failed get_fits_for_apod returns no EarendelFits, and the error it
\* returns identifies the stage that failed: two failed calls that return the
\* same error value failed in the same stage.
C11_ErrorIdentifiesStage ==
    [][(FitsCallFailed(ret') /\ pc' = "idle" /\ pc # "idle")
          => /\ ret'.fits = None
             /\ (FitsCallFailed(ret) /\ ret.err = ret'.err)
                   => StageOf(fail_stage') = StageOf(fail_stage)]_vars

\* --------------------------------------------------------------- claim C12
\* C12: without the picture-of-the-day key no request goes to that service and
\* the call fails; without the archive key no request goes to the archive and
\* get_fits_for_apod fails.
C12_MissingKeyNoRequest ==
    /\ api_key = None =>
          /\ \A i \in 1..Len(net) : net[i].svc # "apod"
          /\ (pc = "idle" /\ calls > 0) => ret.kind = "Err"
    /\ mast_key = None =>
          /\ MastPosts(net) = <<>>
          /\ (pc = "idle" /\ calls > 0 /\ op = "fits") => ret.kind = "Err"

Svcs(n) == [i \in 1..Len(n) |-> n[i].svc]

IsPrefix(a, b) == Len(a) <= Len(b) /\ \A i \in 1..Len(a) : a[i] = b[i]

\* The requests of a whole call, in stage order: on a miss and on a hit.
StagesOnMiss == <<"apod", "image", "lookup", "mast">>
StagesOnHit == <<"lookup", "mast">>

\* The last request a call has issued when it fails at a step: none when the
\* key is missing, else the request of the step or, for a step that sends
\* nothing, of the step before.
RequestsAtFailure(step) ==
    CASE step = "key" -> <<>>
      [] step \in {"apod_get", "apod_parse", "image_url"} -> <<"apod">>
      [] step = "image_get" -> <<"apod", "image">>
      [] step = "lookup" -> <<"lookup">>
      [] step \in {"post", "parse"} -> <<"lookup", "mast">>
      [] OTHER -> <<"none">>

IsSuffix(a, b) ==
    Len(a) <= Len(b) /\ \A i \in 1..Len(a) : a[i] = b[Len(b) - Len(a) + i]

\* C14: the requests of a call are issued in stage order: metadata GET and
\* image GET (none of them on a hit), then the coordinate lookup, then the
\* archive POST.  The lookup is issued only after the APOD stage of the same
\* call succeeded, the POST only after the lookup of the same call succeeded
\* too, and a call that failed at a stage has issued no request of a later
\* stage.
C14_StagesInOrder ==
    /\ IsPrefix(Svcs(net), IF fetch_span = None THEN StagesOnHit ELSE StagesOnMiss)
    /\ (\E i \in 1..Len(net) : net[i].svc \in {"lookup", "mast"})
          => (op = "fits" /\ IsSome(new_state) /\ cached_state # None)
    /\ MastPosts(net) # <<>> => IsSome(coords)
    /\ (pc = "idle" /\ ret.kind = "Err")
          => /\ IsSuffix(RequestsAtFailure(fail_stage), Svcs(net))
             /\ fail_stage \in {"key", "apod_get", "apod_parse", "image_url", "image_get"}
                   => Svcs(net) = RequestsAtFailure(fail_stage)
             /\ fail_stage = "lookup" => MastPosts(net) = <<>>

\* A get_fits_for_apod call that missed has run all its stages and issued
\* all four requests.
C14_Witness ==
    /\ pc = "idle"
    /\ op = "fits"
    /\ ret.kind = "Ok"
    /\ Svcs(net) = StagesOnMiss

C16_HitReturnsStoredRecord ==
    [][/\ (pc = "apod_store" /\ pc' # pc) =>
             /\ cached_state' # None
             /\ cached_state'[1].date = today
             /\ cached_state'[1].apod = new_state[1]
             /\ op = "apod" => (ret'.kind = "Ok" /\ ret'.apod = new_state)
       /\ (pc = "apod_store" /\ pc' # pc /\ fetch_span = None) =>
             /\ cached_state' = cached_state
             /\ cached_state # None
             /\ new_state[1] = cached_state[1].apod
       /\ cached_state' # cached_state =>
             /\ fetched # None
             /\ cached_state'[1].apod = fetched[1]
       /\ (cached_state # None /\ cached_state' # None
             /\ cached_state'[1].date = cached_state[1].date) =>
             cached_state' = cached_state]_vars

\* A get_apod_image call has hit and returned, after an earlier call.
C16_Witness ==
    /\ ApodCallDone
    /\ ret.kind = "Ok"
    /\ fetch_span = None
    /\ calls >= 2
    /\ cached_state # None
    /\ ret.apod = <<cached_state[1].apod>>

\* --------------------------------------------------------------- claim C17
\* The last call returned Err out of get_apod_image.
ApodStageFailed ==
    pc = "idle" /\ calls > 0 /\ ret.kind = "Err" /\ StageOf(fail_stage) = "apod"

\* C17: a get_apod_image call that fails leaves the slot as the call found
\* it, empty or holding an entry of an earlier date.  The slot differs from
\* what the call found only once the call has a record, from a fetch that
\* returned Ok or from a hit, and has passed line 188.
C17_FailureLeavesSlot ==
    /\ ApodStageFailed =>
          /\ cached_state = slot_at_call
          /\ new_state = None
          /\ cached_state # None => cached_state[1].date < today
    /\ pc \in FetchPcs => cached_state = slot_at_call
    /\ (pc \notin {"apod_today", "apod_match"} /\ cached_state # slot_at_call) =>
          /\ pc \notin ApodPcs
          /\ new_state # None
          /\ cached_state = <<[date |-> today, apod |-> new_state[1]]>>
          /\ ret.kind = "Err" => (pc # "idle" \/ StageOf(fail_stage) # "apod")

\* A get_apod_image call has failed on a server whose slot holds the entry of
\* an earlier day.
C17_Witness ==
    /\ ApodStageFailed
    /\ op = "apod"
    /\ cached_state # None
    /\ cached_state[1].date < today
    /\ net # <<>>

\* --------------------------------------------------------------- claim C18
\* The running get_fits_for_apod call, or the last one, is past its APOD stage.
FitsPastApodStage ==
    calls > 0 /\ op = "fits" /\ pc \notin ApodPcs /\ new_state # None

\* The call before the running one was a get_fits_for_apod whose APOD stage
\* succeeded: it returned Ok or failed at a later stage.
PrevFitsApodOk ==
    /\ ret.op = "fits"
    /\ \/ ret.kind = "Ok"
       \/ ret.kind = "Err" /\ StageOf(fail_stage) \in {"resolution", "post", "parse"}

\* C18: get_fits_for_apod fills the slot get_apod_image reads.  Once the APOD
\* stage of a get_fits_for_apod call has succeeded, whether or not a later
\* stage fails, the slot holds the record under the call's today; and the
\* next call of either operation, when its today is a day on which a call
\* has already succeeded, hits: it makes no fetch and sends no request to the
\* picture-of-the-day service.
C18_FitsCallFillsSharedSlot ==
    [][/\ FitsPastApodStage' =>
             /\ cached_state' = <<[date |-> today', apod |-> new_state'[1]]>>
             /\ ok_call'
             /\ cnt_day' = today'
       /\ (pc = "apod_match" /\ PrevFitsApodOk /\ ok_call /\ pc' # pc) =>
             /\ pc' = "apod_store"
             /\ fetches' = fetches
             /\ fetch_span' = None
             /\ net' = <<>>
             /\ new_state' = <<cached_state[1].apod>>]_vars

\* A get_apod_image call hits on the entry stored by a get_fits_for_apod call
\* that failed at the coordinate lookup.
C18_Witness ==
    /\ pc = "apod_store"
    /\ op = "apod"
    /\ fetch_span = None
    /\ ret.op = "fits"
    /\ ret.kind = "Err"
    /\ fail_stage = "lookup"

====
